---- MODULE Spec2Model ----
(***************************************************************************)
(* Model of repo/fsrepo/migrations: FetchBinary, fetch, ipfsFetch,         *)
(* httpFetch, newLimitReadCloser (fetch.go) and DistVersions,              *)
(* LatestDistVersion (versions.go).                                        *)
(*                                                                         *)
(* One call of a top-level function is modelled per behaviour.  Each       *)
(* statement of the function that talks to the outside world (filesystem,  *)
(* daemon, HTTP, archive codec) is one action; the outcome the outside     *)
(* world gives is drawn with \E.  Deferred calls are pushed on a stack and *)
(* run last-in first-out when the function returns, as Go runs them.       *)
(***************************************************************************)
EXTENDS Integers, Sequences, FiniteSets, TLC

VARIABLES
    op,         \* top-level function called
    pc,         \* position inside the top-level function
    fpc,        \* position inside fetch / ipfsFetch / httpFetch
    ctxDone,    \* the caller's context has been cancelled
    cancelAt,   \* where the call was when the context was cancelled
    outKind,    \* what os.Stat(out) answers when the call starts
    fs0,        \* the filesystem when the call starts
    fs,         \* the filesystem
    outPath,    \* the local variable out of FetchBinary
    defers,     \* stack of deferred calls of the top-level function
    arcFile,    \* handle of the staged archive file
    arcCloses,  \* number of arcFile.Close() calls
    rc,         \* the stream fetch returned, as its caller sees it
    rcCloses,   \* number of Close() calls on the stream fetch returned
    body,       \* the response bodies opened during the call
    ipfsCalls,  \* number of ipfsFetch invocations
    httpCalls,  \* number of httpFetch invocations
    ipfsRes,    \* outcome of the ipfsFetch invocation
    httpRes,    \* outcome of the httpFetch invocation
    fetchRes,   \* what fetch returned
    arcData,    \* what the staged archive file holds
    steps,      \* the steps of FetchBinary that completed, in order
    sortDesc,   \* the argument sortDesc of DistVersions
    input,      \* the text DistVersions read from the stream
    dv,         \* what DistVersions returned
    lr,         \* a limitReadCloser and the source it wraps
    nm,         \* the arguments of a call and the ipfs path it asks fetch for
    osv,        \* a call of osWithVariant: the host, the probe and the result
    trace,      \* the calls made and resources acquired and released, in order
    status,     \* StatusCode of the HTTP response, 0 before there is one
    ret         \* what the top-level function returned

vars == <<op, pc, fpc, ctxDone, cancelAt, outKind, fs0, fs, outPath, defers,
          arcFile, arcCloses, rc, rcCloses, body, ipfsCalls, httpCalls,
          ipfsRes, httpRes, fetchRes, arcData, steps, sortDesc, input, dv, lr, nm, osv, trace, status, ret>>

----------------------------------------------------------------------------
(* Names and paths.  A path is the sequence of its components.             *)

binName == "ipfs"

OutArg  == <<"out">>
TmpRoot == <<"tmp">>

\* path.Join(dir, name)
PathJoin(dir, name) == dir \o <<name>>

\* ioutil.TempDir("", arcName): a fresh directory under the temp root
TempDirPath == PathJoin(TmpRoot, "arc-1")

\* line 99: the name makeArchiveName gives the archive file
arcName == "arc.tar.gz"

arcPath == PathJoin(TempDirPath, arcName)

Paths == { OutArg, PathJoin(OutArg, binName), PathJoin(OutArg, "other"),
           TempDirPath, arcPath }

NoFile == [kind |-> "none", mode |-> 0]

\* permission bits: 0644 as os.Create leaves a new file under the usual
\* umask, 0755 as FetchBinary sets, 0100 the owner-executable bit
ModeCreate == 420
ModeExec   == 493
ModeDir    == 448
OwnerExec  == 64

HasOwnerExec(m) == (m \div OwnerExec) % 2 = 1

Exists(f, p) == f[p].kind # "none"

IsPrefix(d, p) == Len(d) <= Len(p) /\ SubSeq(p, 1, Len(d)) = d

\* a removal of the directory entry alone
RemoveDirOnly(f, dir, outcome) == [f EXCEPT ![dir] = NoFile]

\* what os.RemoveAll can do: remove everything, fail after it removed what
\* the directory holds, or fail before it removed anything
RemoveAllOutcomes == {"ok", "partial", "none"}

\* os.RemoveAll(dir): dir and everything under it
RemoveAll(f, dir, outcome) ==
    [p \in Paths |->
        IF outcome = "ok" /\ IsPrefix(dir, p) THEN NoFile
        ELSE IF outcome = "partial" /\ IsPrefix(dir, p) /\ p # dir THEN NoFile
        ELSE f[p]]

\* os.Chmod(p, 0755)
Chmod(f, p) == [f EXCEPT ![p].mode = ModeExec]

\* os.Create(p): a new or truncated regular file
CreateFile(f, p) ==
    [f EXCEPT ![p] = [kind |-> "file",
                      mode |-> IF f[p].kind = "file" THEN f[p].mode ELSE ModeCreate]]

\* the filesystem a call may start from: out is absent, a regular file, or
\* a directory that may already hold files
InitialFs(kind, hasBin, hasOther) ==
    [p \in Paths |->
        IF p = OutArg
        THEN CASE kind = "dir"  -> [kind |-> "dir", mode |-> ModeDir]
               [] kind = "file" -> [kind |-> "file", mode |-> ModeCreate]
               [] OTHER         -> NoFile
        ELSE IF kind = "dir" /\ p = PathJoin(OutArg, binName) /\ hasBin
        THEN [kind |-> "file", mode |-> ModeCreate]
        ELSE IF kind = "dir" /\ p = PathJoin(OutArg, "other") /\ hasOther
        THEN [kind |-> "file", mode |-> ModeCreate]
        ELSE NoFile]

----------------------------------------------------------------------------
(* Decisions of the code, as operators.                                    *)

\* a stat that lets an existing regular file pass
StatDispositionNoExistCheck(kind) ==
    IF kind = "staterr" THEN "ioerror" ELSE "proceed"

\* FetchBinary, lines 71-85: what the stat of out decides.
\* "staterr" is a Stat error other than not-exist.
StatDisposition(kind) ==
    CASE kind = "absent"  -> "proceed"
      [] kind = "staterr" -> "ioerror"
      [] kind = "file"    -> "exists"
      [] kind = "dir"     -> "proceed"

\* an output path that is never composed with the binary's name
ResolveOutVerbatim(kind, out, name) == out

\* FetchBinary, lines 83-85: the final output path
ResolveOut(kind, out, name) ==
    IF kind = "dir" THEN PathJoin(out, name) ELSE out

\* a fetch that returns whatever ipfsFetch returned
fetchNextNoFallback(ipfsOk) == "return"

\* a fetch that goes to the gateway whatever ipfsFetch returned
fetchNextAlwaysHttp(ipfsOk) == "httpFetch"

\* fetch, lines 144-150: after ipfsFetch returned, return or fall back
fetchNext(ipfsOk) == IF ipfsOk THEN "return" ELSE "httpFetch"

\* a caller that forgets to defer the Close of the stream
DeferRcCloseMissing(stack) == stack

\* a Close of the archive file that runs after every other deferred call
DeferArcCloseLast(stack) == <<"arcFile.Close">> \o stack

\* defer statements of FetchBinary and DistVersions
DeferRemoveAll(stack) == Append(stack, "RemoveAll")
DeferArcClose(stack)  == Append(stack, "arcFile.Close")
DeferRcClose(stack)   == Append(stack, "rc.Close")

IpfsErrors == {"ipfs:endpoint", "ipfs:notup", "ipfs:send", "ipfs:resperror"}
HttpErrors == {"http:newrequest", "http:do", "http:status", "http:readbody"}

\* a return value: val is the path or version returned, list the list
NoRet == [val |-> <<>>, list |-> <<>>, err |-> "none"]

----------------------------------------------------------------------------
(* Text.  A string is the sequence of its characters.                      *)

Digits  == <<"0", "1", "2", "3", "4", "5", "6", "7", "8", "9">>
Letters == <<"a", "b", "c", "d", "e", "r", "v", "x">>

IsDigit(c)  == \E i \in 1..10 : Digits[i] = c
DigitVal(c) == (CHOOSE i \in 1..10 : Digits[i] = c) - 1
IsLetter(c) == \E i \in 1..Len(Letters) : Letters[i] = c

\* the byte value of a character, as Go compares strings
Ord(c) ==
    CASE c = "+" -> 43
      [] c = "-" -> 45
      [] c = "." -> 46
      [] IsDigit(c) -> 48 + DigitVal(c)
      [] c = "a" -> 97
      [] c = "b" -> 98
      [] c = "c" -> 99
      [] c = "d" -> 100
      [] c = "e" -> 101
      [] c = "r" -> 114
      [] c = "v" -> 118
      [] c = "x" -> 120
      [] c = "\r" -> 13
      [] c = "\n" -> 10

\* a < b on strings: bytewise lexicographic
RECURSIVE StrLess(_, _)
StrLess(a, b) ==
    IF b = <<>> THEN FALSE
    ELSE IF a = <<>> THEN TRUE
    ELSE IF Ord(Head(a)) # Ord(Head(b)) THEN Ord(Head(a)) < Ord(Head(b))
    ELSE StrLess(Tail(a), Tail(b))

\* strings.Index(s, c) for a one-character c, 1-based; 0 when absent
IndexOf(s, c) ==
    IF \E i \in 1..Len(s) : s[i] = c
    THEN CHOOSE i \in 1..Len(s) : s[i] = c /\ \A j \in 1..(i - 1) : s[j] # c
    ELSE 0

\* strings.Contains(s, sub)
Contains(s, sub) ==
    \E i \in 0..(Len(s) - Len(sub)) : SubSeq(s, i + 1, i + Len(sub)) = sub

\* strings.TrimLeft(s, cutset): every leading character in cutset is removed
RECURSIVE TrimLeft(_, _)
TrimLeft(s, cutset) ==
    IF s # <<>> /\ Head(s) \in cutset THEN TrimLeft(Tail(s), cutset) ELSE s

\* strings.Split(s, sep) for a one-character sep
RECURSIVE Split(_, _)
Split(s, sep) ==
    LET i == IndexOf(s, sep) IN
    IF i = 0 THEN <<s>>
    ELSE <<SubSeq(s, 1, i - 1)>> \o Split(SubSeq(s, i + 1, Len(s)), sep)

\* strings.SplitN(s, sep, n) for n >= 1
RECURSIVE SplitN(_, _, _)
SplitN(s, sep, n) ==
    LET i == IndexOf(s, sep) IN
    IF n = 1 \/ i = 0 THEN <<s>>
    ELSE <<SubSeq(s, 1, i - 1)>> \o SplitN(SubSeq(s, i + 1, Len(s)), sep, n - 1)

\* the decimal digits of a natural number
RECURSIVE Itoa(_)
Itoa(n) ==
    IF n < 10 THEN <<Digits[n + 1]>>
    ELSE Itoa(n \div 10) \o <<Digits[(n % 10) + 1]>>

RECURSIVE DigitsVal(_, _)
DigitsVal(s, acc) ==
    IF s = <<>> THEN acc ELSE DigitsVal(Tail(s), acc * 10 + DigitVal(Head(s)))

\* strconv.ParseInt(s, 10, 64) and strconv.Atoi(s): an optional sign and
\* one or more decimal digits
ParseInt(s) ==
    LET signed == s # <<>> /\ Head(s) \in {"+", "-"}
        ds     == IF signed THEN Tail(s) ELSE s
        ok     == ds # <<>> /\ \A i \in 1..Len(ds) : IsDigit(ds[i])
    IN  [ok  |-> ok,
         val |-> IF ~ok THEN 0
                 ELSE IF signed /\ Head(s) = "-" THEN 0 - DigitsVal(ds, 0)
                 ELSE DigitsVal(ds, 0)]

----------------------------------------------------------------------------
(* github.com/coreos/go-semver/semver, as DistVersions uses it.            *)

\* splitOff: at the first delim, what precedes it and what follows it
splitOff(s, delim) ==
    LET i == IndexOf(s, delim) IN
    IF i = 0 THEN [rest |-> s, val |-> <<>>]
    ELSE [rest |-> SubSeq(s, 1, i - 1), val |-> SubSeq(s, i + 1, Len(s))]

\* validateIdentifier: empty, or ^[0-9A-Za-z-]+(\.[0-9A-Za-z-]+)*$
validateIdentifier(id) ==
    \/ id = <<>>
    \/ \A part \in { Split(id, ".")[k] : k \in 1..Len(Split(id, ".")) } :
          /\ part # <<>>
          /\ \A i \in 1..Len(part) :
                IsDigit(part[i]) \/ IsLetter(part[i]) \/ part[i] = "-"

BadVersion == [ok |-> FALSE, major |-> 0, minor |-> 0, patch |-> 0,
               pre |-> <<>>, meta |-> <<>>]

\* semver.NewVersion(s)
NewVersion(s) ==
    LET m    == splitOff(s, "+")
        p    == splitOff(m.rest, "-")
        dots == SplitN(p.rest, ".", 3)
    IN  IF Len(dots) # 3 THEN BadVersion
        ELSE IF ~validateIdentifier(p.val) THEN BadVersion
        ELSE IF ~validateIdentifier(m.val) THEN BadVersion
        ELSE IF \E k \in 1..3 : ~ParseInt(dots[k]).ok THEN BadVersion
        ELSE [ok |-> TRUE,
              major |-> ParseInt(dots[1]).val,
              minor |-> ParseInt(dots[2]).val,
              patch |-> ParseInt(dots[3]).val,
              pre |-> p.val, meta |-> m.val]

\* Version.String()
VersionString(v) ==
    Itoa(v.major) \o <<".">> \o Itoa(v.minor) \o <<".">> \o Itoa(v.patch)
      \o (IF v.pre # <<>> THEN <<"-">> \o v.pre ELSE <<>>)
      \o (IF v.meta # <<>> THEN <<"+">> \o v.meta ELSE <<>>)

\* recursivePreReleaseCompare on the dot-separated identifiers
RECURSIVE recursivePreReleaseCompare(_, _)
recursivePreReleaseCompare(a, b) ==
    IF a = <<>> THEN (IF b # <<>> THEN -1 ELSE 0)
    ELSE IF b = <<>> THEN 1
    ELSE LET x  == Head(a)
             y  == Head(b)
             xi == ParseInt(x)
             yi == ParseInt(y)
         IN  IF xi.ok /\ ~yi.ok THEN -1
             ELSE IF ~xi.ok /\ yi.ok THEN 1
             ELSE IF xi.ok /\ yi.ok /\ xi.val > yi.val THEN 1
             ELSE IF xi.ok /\ yi.ok /\ xi.val < yi.val THEN -1
             ELSE IF StrLess(y, x) THEN 1
             ELSE IF StrLess(x, y) THEN -1
             ELSE recursivePreReleaseCompare(Tail(a), Tail(b))

\* PreRelease.Slice(): strings.Split(pre, ".")
PreSlice(pre) == Split(pre, ".")

\* preReleaseCompare
preReleaseCompare(a, b) ==
    IF a.pre = <<>> /\ b.pre # <<>> THEN 1
    ELSE IF b.pre = <<>> /\ a.pre # <<>> THEN -1
    ELSE recursivePreReleaseCompare(PreSlice(a.pre), PreSlice(b.pre))

\* Version.Compare: major, minor, patch, then the pre-release; the build
\* metadata takes no part
Compare(a, b) ==
    IF a.major # b.major THEN (IF a.major > b.major THEN 1 ELSE -1)
    ELSE IF a.minor # b.minor THEN (IF a.minor > b.minor THEN 1 ELSE -1)
    ELSE IF a.patch # b.patch THEN (IF a.patch > b.patch THEN 1 ELSE -1)
    ELSE preReleaseCompare(a, b)

\* Versions.Less(i, j)
VersionLess(a, b) == Compare(a, b) < 0

----------------------------------------------------------------------------
(* versions.go: the pure parts of DistVersions and LatestDistVersion.      *)

\* line 44
prefix == <<"v">>

\* bufio.ScanLines: dropCR
dropCR(line) ==
    IF line # <<>> /\ line[Len(line)] = "\r"
    THEN SubSeq(line, 1, Len(line) - 1) ELSE line

\* bufio.Scanner with ScanLines (lines 47-48): the lines of the text, each
\* without its end-of-line marker; a text ending in a newline has no empty
\* last line
RECURSIVE ScanLines(_)
ScanLines(data) ==
    LET i == IndexOf(data, "\n") IN
    IF data = <<>> THEN <<>>
    ELSE IF i = 0 THEN <<dropCR(data)>>
    ELSE <<dropCR(SubSeq(data, 1, i - 1))>> \o ScanLines(SubSeq(data, i + 1, Len(data)))

\* line 49: semver.NewVersion(strings.TrimLeft(scan.Text(), prefix))
ParseLine(line) == NewVersion(TrimLeft(line, {prefix[1]}))

\* lines 48-54: the versions of the lines that parse, in the order read
RECURSIVE ParseLines(_)
ParseLines(lines) ==
    IF lines = <<>> THEN <<>>
    ELSE LET v == ParseLine(Head(lines)) IN
         (IF v.ok THEN <<v>> ELSE <<>>) \o ParseLines(Tail(lines))

\* lines 60-64: Less of semver.Versions, or of sort.Reverse of it
SortLess(desc, a, b) == IF desc THEN VersionLess(b, a) ELSE VersionLess(a, b)

IndexOrders(n) ==
    { q \in [1..n -> 1..n] : \A i, j \in 1..n : i # j => q[i] # q[j] }

\* lines 60-64: sort.Sort.  The orders it may leave the versions in: every
\* arrangement with no element less than the one before it (sort.Sort does
\* not promise where equal elements end up)
SortOrders(vers, desc) ==
    { q \in IndexOrders(Len(vers)) :
        \A i \in 1..(Len(vers) - 1) : ~SortLess(desc, vers[q[i + 1]], vers[q[i]]) }

\* lines 66-69: out[i] = prefix + vers[i].String()
FormatVersions(vers, q) ==
    [i \in 1..Len(vers) |-> prefix \o VersionString(vers[q[i]])]

devMarker == <<"-", "d", "e", "v">>

\* a scan that takes the last entry whatever its text
LatestFromAny(vs, i) ==
    IF i < 1 THEN [val |-> <<>>, list |-> <<>>, err |-> "notfound"]
    ELSE [val |-> vs[i], list |-> <<>>, err |-> "nil"]

\* LatestDistVersion, lines 25-31: from the last entry backwards, the
\* first one without "-dev"
RECURSIVE LatestFrom(_, _)
LatestFrom(vs, i) ==
    IF i < 1 THEN [val |-> <<>>, list |-> <<>>, err |-> "notfound"]
    ELSE IF ~Contains(vs[i], devMarker) THEN [val |-> vs[i], list |-> <<>>, err |-> "nil"]
    ELSE LatestFrom(vs, i - 1)

LatestOf(vs) == LatestFrom(vs, Len(vs))

(* The texts a versions resource may hold: up to MaxLines lines, each one  *)
(* of LineTexts, with or without a final newline.                          *)
MaxLines == 3

LineTexts ==
    { <<"v", "1", ".", "0", ".", "0">>,
      <<"v", "2", ".", "0", ".", "0", "-", "d", "e", "v">>,
      <<"v", "1", ".", "2", ".", "0", "+", "b", "\r">>,
      <<"v", "v", "1", ".", "1", "0", ".", "0">>,
      <<"x", "1", ".", "0", ".", "0">>,
      <<"1", ".", "2", ".", "0">> }

RECURSIVE JoinLines(_)
JoinLines(ls) ==
    IF ls = <<>> THEN <<>>
    ELSE IF Len(ls) = 1 THEN Head(ls)
    ELSE Head(ls) \o <<"\n">> \o JoinLines(Tail(ls))

InputTexts ==
    { JoinLines(ls) \o nl :
        ls \in UNION { [1..n -> LineTexts] : n \in 0..MaxLines },
        nl \in {<<>>, <<"\n">>} }

----------------------------------------------------------------------------
(* limitReadCloser, fetch.go lines 35-38 and 204-209.                      *)

\* line 32
fetchSizeLimit == 1024 * 1024 * 512

Min(a, b) == IF a < b THEN a ELSE b

\* newLimitReadCloser(rc, limit): Reader is io.LimitReader(rc, limit), a
\* reader with N = limit bytes left to give; Closer is rc itself.
\* src is the number of bytes the source rc still holds.
newLimitReadCloser(src, limit) ==
    [state |-> "open", len |-> src, src |-> src, N |-> limit, got |-> 0,
     reads |-> 0, preN |-> limit, n |-> 0, eof |-> FALSE,
     closeCalls |-> 0, srcCloses |-> 0]

NoReader == [state |-> "none", len |-> 0, src |-> 0, N |-> 0, got |-> 0,
             reads |-> 0, preN |-> 0, n |-> 0, eof |-> FALSE,
             closeCalls |-> 0, srcCloses |-> 0]

\* a reader that hands the whole buffer to the source
LimitedLenUncapped(N, want) == want

\* io.LimitedReader.Read(p): how many bytes the source is asked for
\* (if int64(len(p)) > l.N { p = p[0:l.N] })
LimitedLen(N, want) == IF want > N THEN N ELSE want

\* io.LimitedReader.Read(p) with len(p) = want, when the source answers
\* the request for m bytes with k of them:
\*   if l.N <= 0 { return 0, EOF };  n, err = l.R.Read(p);  l.N -= int64(n)
\* preN, n and eof record the call: N before it and what it returned.
LimitedRead(r, want, k) ==
    IF r.N <= 0
    THEN [r EXCEPT !.reads = @ + 1, !.preN = r.N, !.n = 0, !.eof = TRUE]
    ELSE [r EXCEPT !.reads = @ + 1, !.preN = r.N, !.n = k, !.eof = (k = 0),
                   !.src = @ - k, !.N = @ - k, !.got = @ + k]

\* what a source holding src bytes may answer to a request for m bytes:
\* nothing and EOF when it is empty, else between 1 and min(m, src) bytes
SourceAnswers(src, m) ==
    IF src = 0 \/ m = 0 THEN {0}
    ELSE {1, (Min(m, src) + 1) \div 2, Min(m, src)}

\* limitReadCloser.Close is the Close of the source (the embedded Closer)
LimitClose(r) ==
    [r EXCEPT !.state = "closed", !.closeCalls = @ + 1, !.srcCloses = @ + 1]

MaxReads == 4

\* lengths of the source: empty, short, around the limit, and 1 GiB
SourceLens == {0, 5, fetchSizeLimit - 1, fetchSizeLimit, fetchSizeLimit + 1,
               2 * fetchSizeLimit}

\* lengths of the buffer handed to Read
BufLens == {1, fetchSizeLimit \div 2, fetchSizeLimit, fetchSizeLimit + 3}

----------------------------------------------------------------------------
(* Names: fetch.go lines 57-67, 94-100, 244-258 and versions.go line 38.   *)
(* A name or path is the sequence of the pieces it is put together from;   *)
(* the empty string is the empty sequence.                                 *)

\* the distribution root
ipfsDistPath == <<"/ipns/dist.ipfs.io">>

\* versions.go line 15
distVersions == <<"versions">>

NoNames == [state |-> "none", fn |-> "none", dist |-> <<>>, ver |-> <<>>,
            arcArg |-> <<>>, binArg |-> <<>>, goos |-> "none", goarch |-> "none",
            arcName |-> <<>>, binName |-> <<>>, atype |-> <<>>, path |-> <<>>]

\* lines 58-64: a name that is not specified is the same as another
DefaultName(name, other) == IF name = <<>> THEN other ELSE name

\* line 67: exeName, the name of the binary on the host platform
exeName(name, goos) == IF goos = "windows" THEN name \o <<".exe">> ELSE name

\* lines 94-97: the archive type of the host platform
ArchiveType(goos) == IF goos = "windows" THEN <<"zip">> ELSE <<"tar.gz">>

\* an archive name without the architecture
makeArchiveNameNoArch(name, ver, atype) ==
    name \o <<"_">> \o ver \o <<"_">> \o <<nm.goos>> \o <<".">> \o atype

\* makeArchiveName, lines 248-250: "%s_%s_%s-%s.%s" of name, ver,
\* runtime.GOOS, runtime.GOARCH, atype
makeArchiveName(name, ver, atype) ==
    name \o <<"_">> \o ver \o <<"_">> \o <<nm.goos>> \o <<"-">> \o <<nm.goarch>>
         \o <<".">> \o atype

\* makeIpfsPath, lines 256-258: "%s/%s/%s/%s" of ipfsDistPath, dist, ver,
\* arcName
makeIpfsPath(dist, ver, arc) ==
    ipfsDistPath \o <<"/">> \o dist \o <<"/">> \o ver \o <<"/">> \o arc

\* path.Join: the elements that are not empty, with a slash between them
\* (the elements here hold no slash and no dot element, so that the
\* cleaning of the result changes nothing)
RECURSIVE JoinElems(_)
JoinElems(elems) ==
    IF elems = <<>> THEN <<>>
    ELSE IF Head(elems) = <<>> THEN JoinElems(Tail(elems))
    ELSE LET rest == JoinElems(Tail(elems)) IN
         IF rest = <<>> THEN Head(elems) ELSE Head(elems) \o <<"/">> \o rest

DistNames == { <<>>, <<"go-ipfs">>, <<"fs-repo-migrations">> }
VerNames  == { <<"v0.7.0">>, <<"v1.8.0">> }
ArcNames  == { <<>>, <<"go-ipfs">>, <<"ipfs-10-to-11">> }
BinNames  == { <<>>, <<"ipfs">> }
GoOses    == { "linux", "windows", "darwin" }
GoArches  == { "amd64", "arm64" }

----------------------------------------------------------------------------
(* osWithVariant, fetch.go lines 213-242.                                  *)

NoProbe == [state |-> "none", goos |-> "none", canRun |-> FALSE, lddExit |-> 0,
            out |-> <<>>, probed |-> FALSE, val |-> "", err |-> "none"]

musl == <<"m", "u", "s", "l">>

\* a probe whose exit status is that of ldd
ShellStatusOfLdd(lddExit) == lddExit

\* line 228: the exit status of sh -c "ldd --version || true": that of ldd
\* when ldd succeeds, else that of true
ShellStatus(lddExit) == IF lddExit = 0 THEN lddExit ELSE 0

\* lines 234-239: some line of the output contains "musl"
RECURSIVE AnyLineHas(_, _)
AnyLineHas(lines, sub) ==
    IF lines = <<>> THEN FALSE
    ELSE IF Contains(Head(lines), sub) THEN TRUE
    ELSE AnyLineHas(Tail(lines), sub)

\* osWithVariant: the result for a host goos, a shell that can or cannot
\* be started, the exit status of ldd and the combined output
osWithVariant(goos, canRun, lddExit, out) ==
    IF goos # "linux"
    THEN [probed |-> FALSE, val |-> goos, err |-> "nil"]
    ELSE IF ~canRun \/ ShellStatus(lddExit) # 0
    THEN [probed |-> TRUE, val |-> "", err |-> "exec"]
    ELSE IF AnyLineHas(ScanLines(out), musl)
    THEN [probed |-> TRUE, val |-> "linux-musl", err |-> "nil"]
    ELSE [probed |-> TRUE, val |-> "linux", err |-> "nil"]

\* exit statuses of ldd --version
LddExits == {0, 1, 127}

\* combined outputs of the probe
ProbeOutputs ==
    { <<>>,
      <<"l", "d", "d", " ", "2", ".", "2", "3", "\n">>,
      <<"m", "u", "s", "l", " ", "l", "i", "b", "c", "\n">>,
      <<"m", "u", "\n", "s", "l", "\n">>,
      <<"l", "d", "d", "\n", "x", "m", "u", "s", "l", "\r", "\n">>,
      <<"m", "u", "s">> }

----------------------------------------------------------------------------
Init ==
    /\ op \in {"FetchBinary", "DistVersions", "LatestDistVersion"}
    /\ pc = "start"
    /\ fpc = "idle"
    /\ ctxDone \in BOOLEAN
    /\ cancelAt = IF ctxDone THEN "before" ELSE "never"
    /\ outKind \in IF op = "FetchBinary" THEN {"absent", "file", "dir", "staterr"}
                                        ELSE {"absent"}
    /\ sortDesc \in IF op = "DistVersions" THEN BOOLEAN ELSE {FALSE}
    /\ input = <<>>
    /\ dv = NoRet
    /\ lr = NoReader
    /\ nm = NoNames
    /\ osv = NoProbe
    /\ trace = <<>>
    /\ status = 0
    /\ \E hasBin \in BOOLEAN, hasOther \in BOOLEAN :
          fs0 = InitialFs(outKind, hasBin, hasOther)
    /\ fs = fs0
    /\ outPath = OutArg
    /\ defers = <<>>
    /\ arcFile = "none"
    /\ arcCloses = 0
    /\ rc = "none"
    /\ rcCloses = 0
    /\ body = [ipfs |-> "none", http |-> "none"]
    /\ ipfsCalls = 0
    /\ httpCalls = 0
    /\ ipfsRes = "none"
    /\ httpRes = "none"
    /\ fetchRes = "none"
    /\ arcData = "none"
    /\ steps = <<>>
    /\ ret = NoRet

----------------------------------------------------------------------------
(* Frames.                                                                 *)

FetchVars == <<fpc, body, ipfsCalls, httpCalls, ipfsRes, httpRes, fetchRes>>
FsVars    == <<fs, outPath, arcFile, arcCloses, arcData>>
\* what a call of a top-level function never changes
CallVars  == <<op, outKind, fs0, sortDesc, lr, nm, osv>>
DvVars    == <<input, dv>>
CtxVars   == <<ctxDone, cancelAt>>

DaemonSteps == {"ApiEndpoint", "IsUp", "Send", "RespError"}
HttpSteps   == {"NewRequest", "Do", "Status"}

\* an entry of the trace; the response status is as it was
Log(e) ==
    /\ trace' = Append(trace, e)
    /\ UNCHANGED status

\* a step that is not traced
Quiet == UNCHANGED <<trace, status>>

\* a return statement: the result is fixed, then the deferred calls run
Return(path, err) ==
    /\ ret' = [val |-> path, list |-> <<>>, err |-> err]
    /\ pc' = "defers"

----------------------------------------------------------------------------
(* The caller's context.                                                   *)

Cancel ==
    /\ ~ctxDone
    /\ pc \notin {"defers", "Select", "done"}
    /\ ctxDone' = TRUE
    /\ cancelAt' = IF pc = "fetching" /\ fpc \in DaemonSteps THEN "daemon"
                   ELSE IF pc = "fetching" /\ fpc \in HttpSteps THEN "http"
                   ELSE "other"
    /\ Quiet
    /\ UNCHANGED <<pc, FetchVars, FsVars, CallVars, DvVars, defers, rc, rcCloses,
                   steps, ret>>

----------------------------------------------------------------------------
(* FetchBinary, fetch.go lines 56-137.                                     *)

\* lines 71-85: os.Stat(out) and the output disposition
FB_Stat ==
    /\ op = "FetchBinary" /\ pc = "start"
    /\ LET d == StatDisposition(outKind) IN
         CASE d = "ioerror" -> Return(<<>>, "stat") /\ UNCHANGED outPath
           [] d = "exists"  -> Return(<<>>, "exist") /\ UNCHANGED outPath
           [] OTHER         -> /\ outPath' = ResolveOut(outKind, OutArg, binName)
                               /\ pc' = "TempDir"
                               /\ UNCHANGED ret
    /\ Quiet
    /\ UNCHANGED <<FetchVars, fs, arcFile, arcCloses, arcData, CallVars, CtxVars,
                   DvVars, defers, rc, rcCloses, steps>>

\* lines 88-92: ioutil.TempDir and defer os.RemoveAll(tmpDir)
FB_TempDir ==
    /\ op = "FetchBinary" /\ pc = "TempDir"
    /\ \E ok \in BOOLEAN :
         IF ok
         THEN /\ fs' = [fs EXCEPT ![TempDirPath] = [kind |-> "dir", mode |-> ModeDir]]
              /\ defers' = DeferRemoveAll(defers)
              /\ pc' = "Create"
              /\ Log("acquire:tmpdir")
              /\ UNCHANGED ret
         ELSE /\ Return(<<>>, "tempdir")
              /\ Quiet
              /\ UNCHANGED <<fs, defers>>
    /\ UNCHANGED <<FetchVars, outPath, arcFile, arcCloses, arcData, CallVars,
                   CtxVars, DvVars, rc, rcCloses, steps>>

\* lines 103-108: os.Create(arcPath) and defer arcFile.Close()
FB_Create ==
    /\ op = "FetchBinary" /\ pc = "Create"
    /\ \E ok \in BOOLEAN :
         IF ok
         THEN /\ fs' = CreateFile(fs, arcPath)
              /\ arcFile' = "open"
              /\ arcData' = "empty"
              /\ defers' = DeferArcClose(defers)
              /\ pc' = "fetch"
              /\ Log("acquire:arcfile")
              /\ UNCHANGED ret
         ELSE /\ Return(<<>>, "create")
              /\ Quiet
              /\ UNCHANGED <<fs, arcFile, arcData, defers>>
    /\ UNCHANGED <<FetchVars, outPath, arcCloses, CallVars, CtxVars, DvVars, rc,
                   rcCloses, steps>>

\* lines 111-115: the result of fetch, and defer rc.Close()
FB_Fetched ==
    /\ op = "FetchBinary" /\ pc = "fetched"
    /\ IF fetchRes = "ok"
       THEN /\ defers' = DeferRcClose(defers)
            /\ steps' = Append(steps, "fetch")
            /\ pc' = "Copy"
            /\ Log("acquire:stream")
            /\ UNCHANGED ret
       ELSE /\ Return(<<>>, fetchRes)
            /\ Quiet
            /\ UNCHANGED <<defers, steps>>
    /\ UNCHANGED <<FetchVars, FsVars, CallVars, CtxVars, DvVars, rc, rcCloses>>

\* a copy whose error is not looked at
CopyNextIgnoringError(ok) == "Unpack"

\* lines 119-121: the step after io.Copy
CopyNext(ok) == IF ok THEN "Unpack" ELSE "return"

\* lines 118-122: io.Copy(arcFile, rc), then arcFile.Close()
FB_Copy ==
    /\ op = "FetchBinary" /\ pc = "Copy"
    /\ \E ok \in BOOLEAN :
         /\ arcData' = IF ok THEN "whole" ELSE "partial"
         /\ IF CopyNext(ok) = "Unpack"
            THEN /\ arcFile' = "closed"
                 /\ arcCloses' = arcCloses + 1
                 /\ steps' = Append(steps, "stage")
                 /\ pc' = "Unpack"
                 /\ Log("close:arcfile")
                 /\ UNCHANGED ret
            ELSE /\ Return(<<>>, "copy")
                 /\ Quiet
                 /\ UNCHANGED <<arcFile, arcCloses, steps>>
    /\ UNCHANGED <<FetchVars, fs, outPath, CallVars, CtxVars, DvVars, defers, rc,
                   rcCloses>>

\* line 125: unpackArchive(arcPath, atype, dist, binName, out).  The entry
\* named binName is located first; only when it is found is out written.
unpackArchive(f, out, outcome) ==
    IF outcome = "ok" THEN CreateFile(f, out) ELSE f

UnpackOutcomes == {"ok", "noentry", "ioerror"}

\* lines 125-128
FB_Unpack ==
    /\ op = "FetchBinary" /\ pc = "Unpack"
    /\ \E outcome \in UnpackOutcomes :
         /\ fs' = unpackArchive(fs, outPath, outcome)
         /\ IF outcome = "ok"
            THEN /\ steps' = Append(steps, "extract")
                 /\ pc' = "Chmod"
                 /\ UNCHANGED ret
            ELSE /\ Return(<<>>, "unpack:" \o outcome)
                 /\ UNCHANGED steps
    /\ Quiet
    /\ UNCHANGED <<FetchVars, outPath, arcFile, arcCloses, arcData, CallVars,
                   CtxVars, DvVars, defers, rc, rcCloses>>

\* lines 131-136: os.Chmod(out, 0755) and the successful return
FB_Chmod ==
    /\ op = "FetchBinary" /\ pc = "Chmod"
    /\ \E ok \in BOOLEAN :
         IF ok
         THEN /\ fs' = Chmod(fs, outPath)
              /\ steps' = Append(steps, "chmod")
              /\ Return(outPath, "nil")
         ELSE /\ Return(<<>>, "chmod")
              /\ UNCHANGED <<fs, steps>>
    /\ Quiet
    /\ UNCHANGED <<FetchVars, outPath, arcFile, arcCloses, arcData, CallVars,
                   CtxVars, DvVars, defers, rc, rcCloses>>

\* the deferred calls, last in first out
RunDefer ==
    /\ pc = "defers"
    /\ IF defers = <<>>
       THEN /\ pc' = IF op = "LatestDistVersion" THEN "Select" ELSE "done"
            /\ Quiet
            /\ UNCHANGED <<fs, arcFile, arcCloses, rc, rcCloses, body, defers>>
       ELSE LET d == defers[Len(defers)] IN
            /\ defers' = SubSeq(defers, 1, Len(defers) - 1)
            /\ UNCHANGED pc
            /\ CASE d = "rc.Close" ->
                      /\ rcCloses' = rcCloses + 1
                      /\ body' = [body EXCEPT ![rc] = "closed"]
                      /\ Log("close:stream")
                      /\ UNCHANGED <<fs, arcFile, arcCloses, rc>>
                 [] d = "arcFile.Close" ->
                      /\ arcFile' = "closed"
                      /\ arcCloses' = arcCloses + 1
                      /\ Log("close:arcfile")
                      /\ UNCHANGED <<fs, rc, rcCloses, body>>
                 [] d = "RemoveAll" ->
                      /\ \E outcome \in RemoveAllOutcomes :
                            /\ fs' = RemoveAll(fs, TempDirPath, outcome)
                            /\ trace' = trace \o
                                  (IF outcome = "ok" THEN <<"remove:tmpdir">>
                                   ELSE <<"remove:tmpdir", "remove:failed">>)
                      /\ UNCHANGED status
                      /\ UNCHANGED <<arcFile, arcCloses, rc, rcCloses, body>>
    /\ UNCHANGED <<fpc, ipfsCalls, httpCalls, ipfsRes, httpRes, fetchRes, outPath,
                   arcData, CallVars, CtxVars, DvVars, steps, ret>>

----------------------------------------------------------------------------
(* DistVersions and LatestDistVersion, versions.go.                        *)

DvOps == {"DistVersions", "LatestDistVersion"}

\* a return statement of DistVersions
DvReturn(list, err) ==
    /\ dv' = [val |-> <<>>, list |-> list, err |-> err]
    /\ ret' = IF op = "DistVersions" THEN dv' ELSE ret
    /\ pc' = "defers"

\* lines 38-42: the result of fetch, and defer rc.Close()
DV_Fetched ==
    /\ op \in DvOps /\ pc = "fetched"
    /\ IF fetchRes = "ok"
       THEN /\ defers' = DeferRcClose(defers)
            /\ pc' = "Scan"
            /\ Log("acquire:stream")
            /\ UNCHANGED <<dv, ret>>
       ELSE /\ DvReturn(<<>>, fetchRes)
            /\ Quiet
            /\ UNCHANGED defers
    /\ UNCHANGED <<FetchVars, FsVars, CallVars, CtxVars, input, rc, rcCloses, steps>>

\* a scan that gives up at a line that is not a version
scanFailsOnBadLine(readOk, lines) ==
    ~readOk \/ Len(ParseLines(lines)) < Len(lines)

\* lines 51-53 and 55-58: an unparsable line is skipped; only scan.Err()
\* makes DistVersions fail
scanFails(readOk, lines) == ~readOk

\* lines 47-71: the stream is scanned line by line, the versions are
\* sorted and written out; a read error of the stream ends the scan
DV_Scan ==
    /\ op \in DvOps /\ pc = "Scan"
    /\ \E text \in InputTexts, readOk \in BOOLEAN :
         /\ input' = text
         /\ Log(IF readOk THEN "scan:ok" ELSE "scan:readerr")
         /\ IF scanFails(readOk, ScanLines(text))
            THEN DvReturn(<<>>, "scan")
            ELSE LET vers == ParseLines(ScanLines(text)) IN
                 \E q \in SortOrders(vers, sortDesc) :
                    DvReturn(FormatVersions(vers, q), "nil")
    /\ UNCHANGED <<FetchVars, FsVars, CallVars, CtxVars, defers, rc, rcCloses, steps>>

\* LatestDistVersion, lines 20-31, once DistVersions has returned
LDV_Select ==
    /\ op = "LatestDistVersion" /\ pc = "Select"
    /\ ret' = IF dv.err # "nil"
              THEN [val |-> <<>>, list |-> <<>>, err |-> dv.err]
              ELSE LatestOf(dv.list)
    /\ pc' = "done"
    /\ Quiet
    /\ UNCHANGED <<FetchVars, FsVars, CallVars, CtxVars, DvVars, defers, rc,
                   rcCloses, steps>>

----------------------------------------------------------------------------
(* fetch, fetch.go lines 142-151.                                          *)

TopVars == <<FsVars, CallVars, CtxVars, DvVars, defers, rcCloses, steps, ret>>

\* the call of fetch (FetchBinary line 111, DistVersions line 38) enters
\* ipfsFetch (line 144)
fetchCall ==
    /\ \/ op = "FetchBinary" /\ pc = "fetch"
       \/ op \in {"DistVersions", "LatestDistVersion"} /\ pc = "start"
    /\ pc' = "fetching"
    /\ fpc' = "ApiEndpoint"
    /\ ipfsCalls' = ipfsCalls + 1
    /\ Log("ipfsFetch")
    /\ UNCHANGED <<TopVars, rc, body, httpCalls, ipfsRes, httpRes, fetchRes>>

\* lines 145-150: ipfsFetch has returned
fetchDecide ==
    /\ pc = "fetching" /\ fpc = "ipfsReturned"
    /\ LET n == fetchNext(ipfsRes = "ok") IN
         CASE n = "return" ->
                /\ fetchRes' = ipfsRes
                /\ rc' = IF ipfsRes = "ok" THEN "ipfs" ELSE "none"
                /\ fpc' = "return"
                /\ Quiet
                /\ UNCHANGED <<ipfsCalls, httpCalls>>
           [] n = "httpFetch" ->
                /\ httpCalls' = httpCalls + 1
                /\ fpc' = "NewRequest"
                /\ Log("httpFetch")
                /\ UNCHANGED <<ipfsCalls, fetchRes, rc>>
           [] n = "ipfsFetch" ->
                /\ ipfsCalls' = ipfsCalls + 1
                /\ fpc' = "ApiEndpoint"
                /\ Log("ipfsFetch")
                /\ UNCHANGED <<httpCalls, fetchRes, rc>>
    /\ UNCHANGED <<TopVars, pc, body, ipfsRes, httpRes>>

\* fetch returns to its caller
fetchReturn ==
    /\ pc = "fetching" /\ fpc = "return"
    /\ pc' = "fetched"
    /\ fpc' = "idle"
    /\ Quiet
    /\ UNCHANGED <<TopVars, rc, body, ipfsCalls, httpCalls, ipfsRes, httpRes, fetchRes>>

----------------------------------------------------------------------------
(* ipfsFetch, fetch.go lines 155-175.                                      *)

IpfsFrame == <<TopVars, pc, rc, ipfsCalls, httpCalls, httpRes, fetchRes>>

IpfsFail(e) ==
    /\ ipfsRes' = e
    /\ fpc' = "ipfsReturned"

\* lines 156-159: ApiEndpoint("")
ipfs_ApiEndpoint ==
    /\ pc = "fetching" /\ fpc = "ApiEndpoint"
    /\ \E ok \in BOOLEAN :
         /\ Log(IF ok THEN "endpoint:ok" ELSE "endpoint:fail")
         /\ IF ok THEN fpc' = "IsUp" /\ UNCHANGED ipfsRes
                  ELSE IpfsFail("ipfs:endpoint")
    /\ UNCHANGED <<IpfsFrame, body>>

\* a daemon whose answer to IsUp is not looked at
IsUpNextUnchecked(up) == "Send"

\* lines 160-162: the step after sh.IsUp()
IsUpNext(up) == IF up THEN "Send" ELSE "return"

\* lines 160-164: sh.IsUp()
ipfs_IsUp ==
    /\ pc = "fetching" /\ fpc = "IsUp"
    /\ \E up \in BOOLEAN :
         /\ Log(IF up THEN "isup:ok" ELSE "isup:down")
         /\ IF IsUpNext(up) = "Send"
            THEN fpc' = "Send" /\ UNCHANGED ipfsRes
            ELSE IpfsFail("ipfs:notup")
    /\ UNCHANGED <<IpfsFrame, body>>

\* lines 166-169: sh.Request("cat", ipfsPath).Send(ctx); a cancelled
\* context makes the send fail
ipfs_Send ==
    /\ pc = "fetching" /\ fpc = "Send"
    /\ \E ok \in BOOLEAN :
         IF ok /\ ~ctxDone
         THEN /\ fpc' = "RespError"
              /\ body' = [body EXCEPT !.ipfs = "open"]
              /\ Log("send:ok")
              /\ UNCHANGED ipfsRes
         ELSE /\ IpfsFail("ipfs:send")
              /\ Log("send:fail")
              /\ UNCHANGED body
    /\ UNCHANGED IpfsFrame

\* lines 170-174: resp.Error; the client library has drained and closed
\* the body of a response it reports with an error field
ipfs_RespError ==
    /\ pc = "fetching" /\ fpc = "RespError"
    /\ \E hasError \in BOOLEAN :
         IF hasError
         THEN /\ IpfsFail("ipfs:resperror")
              /\ body' = [body EXCEPT !.ipfs = "closed"]
              /\ Log("resp:error")
         ELSE /\ ipfsRes' = "ok"
              /\ fpc' = "ipfsReturned"
              /\ Log("resp:ok")
              /\ UNCHANGED body
    /\ UNCHANGED IpfsFrame

----------------------------------------------------------------------------
(* httpFetch, fetch.go lines 179-202; fetch returns its result (line 150). *)

HttpFrame == <<TopVars, pc, ipfsCalls, httpCalls, ipfsRes>>

StatusBad == 400
\* status codes on either side of the test at line 192
StatusCodes == {399, 400, 404, 500}

\* a test that lets the status 400 through
httpStatusFailsAbove(code) == code > StatusBad

\* line 192
httpStatusFails(code) == code >= StatusBad

HttpReturn(res) ==
    /\ httpRes' = res
    /\ fetchRes' = res
    /\ rc' = IF res = "ok" THEN "http" ELSE "none"
    /\ fpc' = "return"

\* lines 180-185: http.NewRequestWithContext
http_NewRequest ==
    /\ pc = "fetching" /\ fpc = "NewRequest"
    /\ \E ok \in BOOLEAN :
         /\ Log(IF ok THEN "request:ok" ELSE "request:fail")
         /\ IF ok THEN fpc' = "Do" /\ UNCHANGED <<httpRes, fetchRes, rc>>
                  ELSE HttpReturn("http:newrequest")
    /\ UNCHANGED <<HttpFrame, body>>

\* lines 187-190: http.DefaultClient.Do(req); a cancelled context makes
\* the request fail
http_Do ==
    /\ pc = "fetching" /\ fpc = "Do"
    /\ \E ok \in BOOLEAN :
         IF ok /\ ~ctxDone
         THEN /\ fpc' = "Status"
              /\ body' = [body EXCEPT !.http = "open"]
              /\ Log("do:ok")
              /\ UNCHANGED <<httpRes, fetchRes, rc>>
         ELSE /\ HttpReturn("http:do")
              /\ Log("do:fail")
              /\ UNCHANGED body
    /\ UNCHANGED HttpFrame

\* lines 192-201: the status of the response
http_Status ==
    /\ pc = "fetching" /\ fpc = "Status"
    /\ \E code \in StatusCodes, readOk \in BOOLEAN :
         /\ status' = code
         /\ IF httpStatusFails(code)
            THEN /\ HttpReturn(IF readOk THEN "http:status" ELSE "http:readbody")
                 /\ body' = [body EXCEPT !.http = "closed"]
                 /\ trace' = trace \o <<IF readOk THEN "readall:ok" ELSE "readall:fail",
                                         "close:body">>
            ELSE /\ HttpReturn("ok")
                 /\ UNCHANGED <<body, trace>>
    /\ UNCHANGED HttpFrame

----------------------------------------------------------------------------
----------------------------------------------------------------------------
(* The path a call asks fetch for.                                         *)

\* every variable of a call of FetchBinary, DistVersions or
\* LatestDistVersion, at rest
MainIdle(name) ==
    /\ op = name
    /\ pc = "done"
    /\ fpc = "idle"
    /\ ctxDone = FALSE
    /\ cancelAt = "never"
    /\ outKind = "absent"
    /\ sortDesc = FALSE
    /\ input = <<>>
    /\ dv = NoRet
    /\ fs0 = InitialFs("absent", FALSE, FALSE)
    /\ fs = fs0
    /\ outPath = OutArg
    /\ defers = <<>>
    /\ arcFile = "none"
    /\ arcCloses = 0
    /\ rc = "none"
    /\ rcCloses = 0
    /\ body = [ipfs |-> "none", http |-> "none"]
    /\ ipfsCalls = 0
    /\ httpCalls = 0
    /\ ipfsRes = "none"
    /\ httpRes = "none"
    /\ fetchRes = "none"
    /\ arcData = "none"
    /\ steps = <<>>
    /\ trace = <<>>
    /\ status = 0
    /\ ret = NoRet

InitNames ==
    /\ MainIdle("names")
    /\ lr = NoReader
    /\ osv = NoProbe
    /\ \E fn \in {"FetchBinary", "DistVersions"}, dist \in DistNames,
          ver \in VerNames, arc \in ArcNames, bin \in BinNames,
          goos \in GoOses, goarch \in GoArches :
         nm = [NoNames EXCEPT
                 !.state = "called", !.fn = fn, !.dist = dist, !.goos = goos,
                 !.goarch = goarch,
                 !.ver = IF fn = "FetchBinary" THEN ver ELSE <<>>,
                 !.arcArg = IF fn = "FetchBinary" THEN arc ELSE <<>>,
                 !.binArg = IF fn = "FetchBinary" THEN bin ELSE <<>>]

AllButNames == <<op, pc, fpc, ctxDone, cancelAt, outKind, fs0, fs, outPath, defers,
                 arcFile, arcCloses, rc, rcCloses, body, ipfsCalls, httpCalls,
                 ipfsRes, httpRes, fetchRes, arcData, steps, sortDesc, input, dv,
                 lr, osv, trace, status, ret>>

\* FetchBinary, lines 57-67 and 94-111: the names, and the path handed to
\* fetch
NM_FetchBinary ==
    /\ nm.state = "called" /\ nm.fn = "FetchBinary"
    /\ LET arc0  == DefaultName(nm.arcArg, nm.dist)
           bin   == exeName(DefaultName(nm.binArg, arc0), nm.goos)
           atype == ArchiveType(nm.goos)
           arc   == makeArchiveName(arc0, nm.ver, atype)
       IN  nm' = [nm EXCEPT !.state = "fetch", !.arcName = arc, !.binName = bin,
                            !.atype = atype,
                            !.path = makeIpfsPath(nm.dist, nm.ver, arc)]
    /\ UNCHANGED AllButNames

\* DistVersions, line 38: the path handed to fetch
NM_DistVersions ==
    /\ nm.state = "called" /\ nm.fn = "DistVersions"
    /\ nm' = [nm EXCEPT !.state = "fetch",
                        !.path = JoinElems(<<ipfsDistPath, nm.dist, distVersions>>)]
    /\ UNCHANGED AllButNames

NextNames ==
    \/ NM_FetchBinary
    \/ NM_DistVersions

SpecNames == InitNames /\ [][NextNames]_vars

----------------------------------------------------------------------------
(* A call of osWithVariant.                                                *)

InitOs ==
    /\ MainIdle("osWithVariant")
    /\ lr = NoReader
    /\ nm = NoNames
    /\ \E goos \in GoOses, canRun \in BOOLEAN, lddExit \in LddExits,
          out \in ProbeOutputs :
         osv = [NoProbe EXCEPT !.state = "called", !.goos = goos,
                               !.canRun = canRun, !.lddExit = lddExit, !.out = out]

AllButOs == <<op, pc, fpc, ctxDone, cancelAt, outKind, fs0, fs, outPath, defers,
              arcFile, arcCloses, rc, rcCloses, body, ipfsCalls, httpCalls,
              ipfsRes, httpRes, fetchRes, arcData, steps, sortDesc, input, dv,
              lr, nm, trace, status, ret>>

OSV_Call ==
    /\ osv.state = "called"
    /\ LET r == osWithVariant(osv.goos, osv.canRun, osv.lddExit, osv.out) IN
         osv' = [osv EXCEPT !.state = "done", !.probed = r.probed,
                            !.val = r.val, !.err = r.err]
    /\ UNCHANGED AllButOs

NextOs == OSV_Call

SpecOs == InitOs /\ [][NextOs]_vars

----------------------------------------------------------------------------
(* A limitReadCloser in the hands of its caller: reads, then Close.        *)

MainVars == <<op, pc, fpc, ctxDone, cancelAt, outKind, fs0, fs, outPath, defers,
              arcFile, arcCloses, rc, rcCloses, body, ipfsCalls, httpCalls,
              ipfsRes, httpRes, fetchRes, arcData, steps, sortDesc, input, dv, ret,
              nm, osv, trace, status>>

InitLimit ==
    /\ op = "limitReadCloser"
    /\ pc = "done"
    /\ fpc = "idle"
    /\ ctxDone = FALSE
    /\ cancelAt = "never"
    /\ outKind = "absent"
    /\ sortDesc = FALSE
    /\ input = <<>>
    /\ dv = NoRet
    /\ fs0 = InitialFs("absent", FALSE, FALSE)
    /\ fs = fs0
    /\ outPath = OutArg
    /\ defers = <<>>
    /\ arcFile = "none"
    /\ arcCloses = 0
    /\ rc = "none"
    /\ rcCloses = 0
    /\ body = [ipfs |-> "none", http |-> "none"]
    /\ ipfsCalls = 0
    /\ httpCalls = 0
    /\ ipfsRes = "none"
    /\ httpRes = "none"
    /\ fetchRes = "none"
    /\ arcData = "none"
    /\ steps = <<>>
    /\ ret = NoRet
    /\ \E len \in SourceLens : lr = newLimitReadCloser(len, fetchSizeLimit)
    /\ nm = NoNames
    /\ osv = NoProbe
    /\ trace = <<>>
    /\ status = 0

\* Read(p) on the stream
LR_Read ==
    /\ lr.state = "open"
    /\ lr.reads < MaxReads
    /\ \E want \in BufLens :
         \E k \in SourceAnswers(lr.src, LimitedLen(lr.N, want)) :
            lr' = LimitedRead(lr, want, k)
    /\ UNCHANGED MainVars

\* Close() on the stream
LR_Close ==
    /\ lr.state = "open"
    /\ lr' = LimitClose(lr)
    /\ UNCHANGED MainVars

NextLimit ==
    \/ LR_Read
    \/ LR_Close

SpecLimit == InitLimit /\ [][NextLimit]_vars

----------------------------------------------------------------------------
Next ==
    \/ Cancel
    \/ FB_Stat
    \/ FB_TempDir
    \/ FB_Create
    \/ FB_Fetched
    \/ FB_Copy
    \/ FB_Unpack
    \/ FB_Chmod
    \/ RunDefer
    \/ DV_Fetched
    \/ DV_Scan
    \/ LDV_Select
    \/ fetchCall
    \/ fetchDecide
    \/ fetchReturn
    \/ ipfs_ApiEndpoint
    \/ ipfs_IsUp
    \/ ipfs_Send
    \/ ipfs_RespError
    \/ http_NewRequest
    \/ http_Do
    \/ http_Status

Spec == Init /\ [][Next]_vars

----------------------------------------------------------------------------
(* Properties.                                                             *)

\* the function that called fetch has returned
CallerReturned == pc \in {"Select", "done"}

FetchBinaryDone == op = "FetchBinary" /\ pc = "done"

\* C1: when the daemon attempt of a call of fetch fails, the HTTP transport
\* is attempted exactly once, the daemon is not attempted again, and fetch
\* returns what the HTTP attempt returned: its stream, or its error.
C1_FallbackOnceReturnsHttp ==
    /\ ipfsCalls <= 1
    /\ httpCalls <= 1
    /\ (fetchRes # "none" /\ ipfsRes \in IpfsErrors) =>
          /\ ipfsCalls = 1
          /\ httpCalls = 1
          /\ httpRes # "none"
          /\ fetchRes = httpRes
          /\ (fetchRes = "ok" => rc = "http")
          /\ (fetchRes # "ok" => fetchRes \in HttpErrors /\ rc = "none")

C1_Witness ==
    /\ pc = "fetched"
    /\ ipfsRes = "ipfs:notup"
    /\ fetchRes = "http:status"
    /\ httpCalls = 1

\* C2: when the context is cancelled while the daemon attempt is in
\* progress, httpFetch is not invoked in that call of fetch.
C2_NoFallbackAfterCancel ==
    cancelAt = "daemon" => httpCalls = 0

\* C3: when FetchBinary returns an error, there is no file at the final
\* output path unless one was there before the call.
C3_NoFileLeftOnError ==
    (FetchBinaryDone /\ ret.err # "nil") =>
        (Exists(fs, outPath) => Exists(fs0, outPath))

\* C4: a stream that fetch returned to FetchBinary or DistVersions is
\* closed exactly once by the time that caller has returned, whatever the
\* exit path, and its underlying body is then closed.
C4_StreamClosedOnce ==
    /\ rcCloses <= 1
    /\ (CallerReturned /\ fetchRes = "ok") => (rcCloses = 1 /\ body[rc] = "closed")
    /\ (CallerReturned /\ fetchRes # "ok") => rcCloses = 0

C4_Witness ==
    /\ FetchBinaryDone
    /\ ret.err = "copy"
    /\ rc = "http"
    /\ rcCloses = 1
    /\ body.http = "closed"

\* C5: the stream of newLimitReadCloser never delivers more than
\* min(source length, limit) bytes; a read made once the limit is used up
\* returns no bytes and end-of-data even when the source holds more; and
\* Close, after any number of bytes read, closes the source.
C5_BoundedStream ==
    lr.state # "none" =>
        /\ lr.got <= Min(lr.len, fetchSizeLimit)
        /\ (lr.reads > 0 /\ lr.preN <= 0) => (lr.n = 0 /\ lr.eof)
        /\ (lr.state = "closed") => (lr.closeCalls = 1 /\ lr.srcCloses = 1)

C5_Witness ==
    /\ lr.len = 2 * fetchSizeLimit
    /\ lr.got = fetchSizeLimit
    /\ lr.src > 0
    /\ lr.preN = 0 /\ lr.n = 0 /\ lr.eof
    /\ lr.state = "closed" /\ lr.srcCloses = 1

\* C6: with an output path that is an existing regular file, FetchBinary
\* fails with the already-exists error; it creates no temporary directory,
\* attempts no fetch, extracts nothing and leaves the file as it was.
C6_ExistingFileRefused ==
    (op = "FetchBinary" /\ outKind = "file") =>
        /\ fs = fs0
        /\ ipfsCalls = 0 /\ httpCalls = 0
        /\ defers = <<>> /\ steps = <<>>
        /\ (pc = "done" => ret.err = "exist" /\ ret.val = <<>>)

C6_Witness ==
    /\ FetchBinaryDone /\ outKind = "file"
    /\ ret.err = "exist"
    /\ fs[OutArg].kind = "file"

\* C7 as stated: once FetchBinary has returned, with whatever outcome, the
\* temporary directory of the call and the archive staged in it are gone.
C7_TempDirRemoved ==
    FetchBinaryDone => (~Exists(fs, TempDirPath) /\ ~Exists(fs, arcPath))

\* one leading prefix character removed, when there is one
StripOnePrefix(line) ==
    IF line # <<>> /\ Head(line) = prefix[1] THEN Tail(line) ELSE line

\* a line is a version token when it matches the version grammar once one
\* leading prefix character is removed
IsVersionToken(line) == NewVersion(StripOnePrefix(line)).ok

Count(seq, x) == Cardinality({ i \in DOMAIN seq : seq[i] = x })

TokenVersion(text) == NewVersion(StripOnePrefix(text))

\* C8: DistVersions returns exactly the version tokens of its input, each
\* with the text it had in the input, in strictly ascending version order,
\* or strictly descending order when sortDesc is set.
C8_ValidTokensInOrder ==
    (op = "DistVersions" /\ pc = "done" /\ ret.err = "nil") =>
        LET valid == SelectSeq(ScanLines(input), IsVersionToken)
            out   == ret.list
        IN  /\ Len(out) = Len(valid)
            /\ \A i \in DOMAIN out : Count(out, out[i]) = Count(valid, out[i])
            /\ \A i \in 1..(Len(out) - 1) :
                  IF sortDesc
                  THEN VersionLess(TokenVersion(out[i + 1]), TokenVersion(out[i]))
                  ELSE VersionLess(TokenVersion(out[i]), TokenVersion(out[i + 1]))

NonDev(vs) == { i \in DOMAIN vs : ~Contains(vs[i], devMarker) }

\* C9: LatestDistVersion returns an entry of the listing without "-dev" in
\* its text that no other such entry exceeds in version precedence, and it
\* fails with the not-found error exactly when no entry is without "-dev"
\* (an empty listing included).
C9_LatestStable ==
    (op = "LatestDistVersion" /\ pc = "done" /\ dv.err = "nil") =>
        IF NonDev(dv.list) = {}
        THEN ret.err = "notfound" /\ ret.val = <<>>
        ELSE /\ ret.err = "nil"
             /\ \E i \in NonDev(dv.list) : ret.val = dv.list[i]
             /\ \A j \in NonDev(dv.list) :
                   ~VersionLess(TokenVersion(ret.val), TokenVersion(dv.list[j]))

C9_Witness ==
    /\ op = "LatestDistVersion" /\ pc = "done" /\ dv.err = "nil"
    /\ Len(dv.list) = 3
    /\ Contains(dv.list[3], devMarker)
    /\ VersionLess(TokenVersion(dv.list[1]), TokenVersion(dv.list[2]))
    /\ ret.val = dv.list[2]

\* C10: when FetchBinary succeeds and the output path is an existing
\* directory, it returns outputDir/binaryName, the file there is executable
\* by its owner and nothing else in the directory has changed; when the
\* output path does not exist, it returns the output path itself.
C10_InstalledPath ==
    (FetchBinaryDone /\ ret.err = "nil") =>
        /\ fs[ret.val].kind = "file"
        /\ HasOwnerExec(fs[ret.val].mode)
        /\ outKind = "dir" =>
              /\ ret.val = PathJoin(OutArg, binName)
              /\ \A p \in Paths :
                    (IsPrefix(OutArg, p) /\ p # ret.val) => fs[p] = fs0[p]
        /\ outKind = "absent" => ret.val = OutArg

C10_Witness ==
    /\ FetchBinaryDone /\ ret.err = "nil"
    /\ outKind = "dir"
    /\ ret.val = PathJoin(OutArg, binName)
    /\ ~Exists(fs0, ret.val)
    /\ HasOwnerExec(fs[ret.val].mode)
    /\ ~Exists(fs, PathJoin(OutArg, "other"))

\* the archive file name of the layout, for the base name base
LayoutArchive(base) ==
    base \o <<"_">> \o nm.ver \o <<"_", nm.goos, "-", nm.goarch, ".">>
         \o (IF nm.goos = "windows" THEN <<"zip">> ELSE <<"tar.gz">>)

LayoutRoot == <<"/ipns/dist.ipfs.io", "/">>

\* C11 as stated: FetchBinary fetches root/<dist>/<version>/
\* <dist>_<version>_<os>-<arch>.<ext>, ext being zip on windows and tar.gz
\* elsewhere; DistVersions fetches root/<dist>/versions.
C11_LayoutByDist ==
    /\ (nm.state = "fetch" /\ nm.fn = "FetchBinary") =>
          nm.path = LayoutRoot \o nm.dist \o <<"/">> \o nm.ver \o <<"/">>
                       \o LayoutArchive(nm.dist)
    /\ (nm.state = "fetch" /\ nm.fn = "DistVersions") =>
          nm.path = LayoutRoot \o nm.dist \o <<"/", "versions">>

\* C11, amended: the archive file is named after the archive base name,
\* which is dist only when no archive base name is given; the binary base
\* name is the archive base name when none is given; DistVersions fetches
\* root/<dist>/versions for a dist that is not empty, and root/versions for
\* the empty one.
C11_LayoutByArchiveName ==
    /\ (nm.state = "fetch" /\ nm.fn = "FetchBinary") =>
          LET base == IF nm.arcArg = <<>> THEN nm.dist ELSE nm.arcArg
              bin  == IF nm.binArg = <<>> THEN base ELSE nm.binArg
          IN  /\ nm.path = LayoutRoot \o nm.dist \o <<"/">> \o nm.ver \o <<"/">>
                              \o LayoutArchive(base)
              /\ nm.binName = bin \o (IF nm.goos = "windows" THEN <<".exe">> ELSE <<>>)
    /\ (nm.state = "fetch" /\ nm.fn = "DistVersions") =>
          nm.path = IF nm.dist = <<>> THEN LayoutRoot \o <<"versions">>
                    ELSE LayoutRoot \o nm.dist \o <<"/", "versions">>

C11_Witness ==
    /\ nm.state = "fetch" /\ nm.fn = "FetchBinary"
    /\ nm.dist = <<"fs-repo-migrations">>
    /\ nm.arcArg = <<"ipfs-10-to-11">>
    /\ nm.binArg = <<>>
    /\ nm.goos = "windows"
    /\ nm.path = <<"/ipns/dist.ipfs.io", "/", "fs-repo-migrations", "/", "v1.8.0", "/",
                   "ipfs-10-to-11", "_", "v1.8.0", "_", "windows", "-", "amd64", ".", "zip">>
    /\ nm.binName = <<"ipfs-10-to-11", ".exe">>

\* C17: osWithVariant returns "linux-musl" exactly when the host is linux
\* and a line of the probe's combined output contains "musl"; otherwise
\* "linux" on linux; on another host the name of the host, without running
\* the probe; it fails only when the probe command cannot be invoked,
\* whatever the exit status of ldd.
C17_OsWithVariant ==
    osv.state = "done" =>
        /\ (osv.err # "nil") <=> (osv.goos = "linux" /\ ~osv.canRun)
        /\ (osv.val = "linux-musl") <=>
              (osv.goos = "linux" /\ osv.canRun /\ Contains(osv.out, musl))
        /\ (osv.goos = "linux" /\ osv.canRun /\ ~Contains(osv.out, musl)) =>
              osv.val = "linux"
        /\ (osv.goos # "linux") =>
              (osv.val = osv.goos /\ ~osv.probed /\ osv.err = "nil")
        /\ (osv.goos = "linux") => osv.probed

C17_Witness ==
    /\ osv.state = "done"
    /\ osv.goos = "linux" /\ osv.canRun
    /\ osv.lddExit = 1
    /\ Contains(osv.out, musl)
    /\ osv.val = "linux-musl" /\ osv.err = "nil"

\* C12: in FetchBinary the steps run in the order fetch, stage, extract,
\* set permission, each one starting only after the one before succeeded:
\* the copy starts only after fetch returned a stream, the extraction only
\* after the whole stream was copied and the archive file closed, and chmod
\* only after the extraction wrote the output file.
C12_StepsInOrder ==
    op = "FetchBinary" =>
        /\ IsPrefix(steps, <<"fetch", "stage", "extract", "chmod">>)
        /\ (pc = "Copy") =>
              (steps = <<"fetch">> /\ fetchRes = "ok" /\ rc \in {"ipfs", "http"}
                 /\ arcData = "empty")
        /\ (pc = "Unpack") =>
              (steps = <<"fetch", "stage">> /\ arcData = "whole" /\ arcFile = "closed")
        /\ (pc = "Chmod") =>
              (steps = <<"fetch", "stage", "extract">> /\ Exists(fs, outPath)
                 /\ arcData = "whole")
        /\ (pc \in {"start", "TempDir", "Create", "fetch", "fetching", "fetched"}) =>
              steps = <<>>

C12_Witness ==
    /\ op = "FetchBinary" /\ pc = "done"
    /\ steps = <<"fetch", "stage", "extract", "chmod">>
    /\ ret.err = "nil"
    /\ arcData = "whole" /\ arcFile = "closed"

\* the trace has the entry e
Has(e) == \E i \in DOMAIN trace : trace[i] = e

\* every entry b of the trace has an entry a before it
Before(a, b) ==
    \A j \in DOMAIN trace :
        trace[j] = b => \E i \in 1..(j - 1) : trace[i] = a

\* C13: fetch attempts the daemon first, and attempts HTTP if and only if
\* the daemon attempt failed: when the daemon attempt succeeded its stream
\* is what fetch returns and no HTTP request is made.
C13_HttpIffDaemonFailed ==
    /\ Before("ipfsFetch", "httpFetch")
    /\ Has("httpFetch") => ipfsRes \in IpfsErrors
    /\ (ipfsRes \in IpfsErrors /\ fpc # "ipfsReturned") => Has("httpFetch")
    /\ (ipfsRes = "ok") =>
          /\ ~Has("httpFetch") /\ ~Has("request:ok") /\ ~Has("do:ok")
          /\ httpRes = "none" /\ body.http = "none" /\ status = 0
          /\ (fetchRes # "none") => (fetchRes = "ok" /\ rc = "ipfs")

C13_Witness ==
    /\ pc = "fetched"
    /\ ipfsRes = "ok" /\ fetchRes = "ok" /\ rc = "ipfs"
    /\ Has("ipfsFetch") /\ ~Has("httpFetch")

IsDaemonEvent(e) ==
    e \in {"endpoint:ok", "endpoint:fail", "isup:ok", "isup:down",
           "send:ok", "send:fail", "resp:ok", "resp:error"}

DaemonChain == <<"endpoint:ok", "isup:ok", "send:ok", "resp:ok">>

DaemonFailures == <<"endpoint:fail", "isup:down", "send:fail", "resp:error">>

\* C14: ipfsFetch discovers the endpoint, then checks that the daemon is
\* up, then sends the request; the request is sent only after both
\* succeeded; a stream is returned only when the send succeeded and the
\* response has no error; in every other case ipfsFetch returns an error
\* and no stream.
C14_DaemonStepsInOrder ==
    LET d == SelectSeq(trace, IsDaemonEvent)
        n == Len(d)
    IN  /\ n <= 4
        /\ \/ IsPrefix(d, DaemonChain)
           \/ /\ n >= 1
              /\ IsPrefix(SubSeq(d, 1, n - 1), DaemonChain)
              /\ d[n] = DaemonFailures[n]
        /\ (Has("send:ok") \/ Has("send:fail")) =>
              (Before("endpoint:ok", "isup:ok") /\ Before("isup:ok", "send:ok")
                 /\ Before("isup:ok", "send:fail") /\ ~Has("isup:down"))
        /\ (ipfsRes = "ok") <=> (Has("send:ok") /\ Has("resp:ok"))
        /\ (rc = "ipfs") => ipfsRes = "ok"
        /\ (ipfsRes # "none") =>
              (ipfsRes \in IpfsErrors <=> d[n] \in {"endpoint:fail", "isup:down",
                                                    "send:fail", "resp:error"})
        /\ (ipfsRes \in IpfsErrors) => (rc # "ipfs" /\ body.ipfs # "open")

C14_Witness ==
    /\ pc = "fetched"
    /\ rc = "ipfs"
    /\ SelectSeq(trace, IsDaemonEvent) = DaemonChain

\* httpFetch returns a stream exactly when the request was performed and
\* the status of the response is below 400
HttpStreamIffBelow400 ==
    /\ (httpRes = "ok") <=> (Has("do:ok") /\ status # 0 /\ status < 400)
    /\ (httpRes = "ok") <=> (rc = "http")

\* when fetch returns an error no response body is open
NoBodyLeftOpen ==
    (fetchRes \notin {"none", "ok"}) =>
        (rc = "none" /\ body.ipfs # "open" /\ body.http # "open")

\* C15 as stated: httpFetch returns a stream exactly when the request was
\* performed and the status is below 400; for every status of 400 or above
\* it returns an error that includes the text of the body, no stream, and
\* has closed the body; when fetch fails no body is left open.
C15_ErrorIncludesBody ==
    /\ HttpStreamIffBelow400
    /\ (status >= 400) =>
          (httpRes = "http:status" /\ rc = "none" /\ body.http = "closed")
    /\ NoBodyLeftOpen

\* C15, amended: for a status of 400 or above the error includes the text
\* of the body when the body could be read, and is the error of the read
\* otherwise; in both cases no stream is returned and the body is closed.
C15_ErrorIncludesBodyWhenRead ==
    /\ HttpStreamIffBelow400
    /\ (status >= 400) =>
          /\ httpRes \in {"http:status", "http:readbody"}
          /\ (httpRes = "http:status") <=> Has("readall:ok")
          /\ (httpRes = "http:readbody") <=> Has("readall:fail")
          /\ Has("close:body")
          /\ rc = "none" /\ body.http = "closed"
    /\ (status # 0 /\ status < 400) => ~Has("close:body")
    /\ NoBodyLeftOpen

C15_Witness ==
    /\ pc = "fetched"
    /\ status = 404
    /\ httpRes = "http:status" /\ fetchRes = "http:status"
    /\ Has("readall:ok")
    /\ body.http = "closed" /\ rc = "none"

MalformedLine == <<"x", "1", ".", "0", ".", "0">>

OnlyMalformed(text) ==
    LET lines == ScanLines(text) IN
        lines # <<>> /\ \A i \in DOMAIN lines : lines[i] = MalformedLine

\* C16: DistVersions fails exactly when both transports failed or the
\* scan of the resource failed, and then returns no list; a line that does
\* not parse never makes it fail, and a listing of malformed lines only
\* gives the empty list and no error.
C16_FailsOnlyOnTransportOrScan ==
    (op \in DvOps /\ dv.err # "none") =>
        /\ (dv.err # "nil") <=>
              \/ (ipfsRes \in IpfsErrors /\ httpRes \in HttpErrors)
              \/ Has("scan:readerr")
        /\ (dv.err # "nil") => dv.list = <<>>
        /\ Has("scan:ok") => dv.err = "nil"
        /\ (Has("scan:ok") /\ OnlyMalformed(input)) =>
              (dv.err = "nil" /\ dv.list = <<>>)
        /\ (Has("scan:ok") \/ Has("scan:readerr")) => fetchRes = "ok"

C16_Witness ==
    /\ op = "DistVersions" /\ pc = "done"
    /\ Has("scan:ok")
    /\ OnlyMalformed(input) /\ Len(ScanLines(input)) = 2
    /\ ret.err = "nil" /\ ret.list = <<>>

IsReleaseEvent(e) == e \in {"close:stream", "close:arcfile", "remove:tmpdir"}

\* where the first entry e of the trace is, 0 when there is none
FirstAt(e) ==
    IF Has(e) THEN CHOOSE i \in DOMAIN trace :
                      trace[i] = e /\ \A j \in 1..(i - 1) : trace[j] # e
    ELSE 0

\* the temporary directory is not removed while the archive file or the
\* stream is open
NotRemovedWhileOpen ==
    Has("remove:tmpdir") =>
        /\ arcFile # "open"
        /\ (rc # "none") => body[rc] = "closed"
        /\ Has("acquire:arcfile") => FirstAt("close:arcfile") < FirstAt("remove:tmpdir")
        /\ Has("acquire:stream") => FirstAt("close:stream") < FirstAt("remove:tmpdir")

\* C18 as stated: on every exit path of FetchBinary that created the
\* temporary directory the stream is closed first, then the archive file,
\* and the directory is removed after both; the directory is never removed
\* while the archive file or the stream is open.
C18_StreamClosedBeforeArchive ==
    (op = "FetchBinary" /\ Has("acquire:tmpdir")) =>
        /\ (pc = "done") => Has("remove:tmpdir")
        /\ (Has("close:stream") /\ Has("close:arcfile")) =>
              FirstAt("close:stream") < FirstAt("close:arcfile")
        /\ NotRemovedWhileOpen

\* C18, amended: the deferred releases run in reverse order of
\* acquisition, the stream, then the archive file, then the directory; on
\* the paths where the copy succeeded the archive file was closed before
\* them, at line 122, so before the stream; the directory is never removed
\* while the archive file or the stream is open.
C18_DeferredReleasesInReverse ==
    (op = "FetchBinary" /\ Has("acquire:tmpdir")) =>
        /\ (pc = "done") =>
              SelectSeq(trace, IsReleaseEvent) =
                 (IF "stage" \in {steps[i] : i \in DOMAIN steps}
                     THEN <<"close:arcfile">> ELSE <<>>)
                 \o (IF Has("acquire:stream") THEN <<"close:stream">> ELSE <<>>)
                 \o (IF Has("acquire:arcfile") THEN <<"close:arcfile">> ELSE <<>>)
                 \o <<"remove:tmpdir">>
        /\ (Has("close:stream") /\ Has("close:arcfile") /\ arcData # "whole") =>
              FirstAt("close:stream") < FirstAt("close:arcfile")
        /\ NotRemovedWhileOpen

C18_Witness ==
    /\ FetchBinaryDone
    /\ ret.err = "nil"
    /\ SelectSeq(trace, IsReleaseEvent) =
          <<"close:arcfile", "close:stream", "close:arcfile", "remove:tmpdir">>
    /\ arcFile = "closed" /\ body[rc] = "closed" /\ ~Exists(fs, TempDirPath)

\* C7, amended: once FetchBinary has returned, with whatever outcome, it
\* has called os.RemoveAll on the temporary directory of the call exactly
\* once when it created one, after every other release; when that call
\* succeeded the directory and the archive staged in it are gone; when it
\* failed they may be left, and what FetchBinary returns is the same
\* either way: nil exactly when every step up to chmod succeeded.
C7_TempDirRemovalAttempted ==
    FetchBinaryDone =>
        LET rel == SelectSeq(trace, IsReleaseEvent) IN
        /\ Count(trace, "remove:tmpdir") = (IF Has("acquire:tmpdir") THEN 1 ELSE 0)
        /\ Has("acquire:tmpdir") => rel[Len(rel)] = "remove:tmpdir"
        /\ (Has("remove:tmpdir") /\ ~Has("remove:failed")) =>
              (~Exists(fs, TempDirPath) /\ ~Exists(fs, arcPath))
        /\ ~Has("acquire:tmpdir") =>
              (~Exists(fs, TempDirPath) /\ ~Exists(fs, arcPath))
        /\ Has("remove:failed") => Has("remove:tmpdir")
        /\ (ret.err = "nil") <=> (steps = <<"fetch", "stage", "extract", "chmod">>)

C7_Witness ==
    /\ FetchBinaryDone
    /\ arcData = "whole"
    /\ ret.err = "unpack:noentry"
    /\ Has("remove:tmpdir") /\ ~Has("remove:failed")
    /\ ~Exists(fs, TempDirPath) /\ ~Exists(fs, arcPath)
====
